---- MODULE Spec2Model ----
(***************************************************************************)
(* Meeting audio-intelligence pipeline of the fundraising backend:         *)
(* AudioProcessingService (app/services/audio_processing_service.py), the  *)
(* Meeting document (app/models/meeting.py) and the meeting controller     *)
(* endpoints that load and save the same document                          *)
(* (app/controllers/meeting_controller.py).                                *)
(*                                                                         *)
(* The meeting record store holds one document per meeting id.  Every      *)
(* handler works on its own in-memory copy of the document, obtained by    *)
(* Meeting.get, and writes the whole copy back with meeting.save().  An    *)
(* action of the model is one handler segment that ends in (at most) one   *)
(* store or file-store operation; the AI provider calls made in a segment  *)
(* are recorded, in order, in the invocation's trace.                      *)
(*                                                                         *)
(* Texts are sequences of code points.  An Optional value is <<>> (None)   *)
(* or <<v>>.                                                               *)
(***************************************************************************)
EXTENDS Integers, Sequences, FiniteSets, TLC

\* ------------------------------------------------------------------ bounds

\* Number of concurrently running handler invocations.
MaxProcs == 2

\* Number of requests served in one run.
MaxInvocations == 3

Procs == 1..MaxProcs

\* ------------------------------------------------------------ basic values

None == <<>>

Some(v) == <<v>>

\* A test for None where truthiness was meant: "" passes.
TruthyTextNotNone(o) == o # None

\* Python truthiness of an Optional[str]: None and "" are falsy.
TruthyText(o) == o # None /\ Len(o[1]) > 0

\* Python truthiness of an Optional[List[str]]: None and [] are falsy.
TruthyList(o) == o # None /\ Len(o[1]) > 0

\* str.strip(): code points that Python treats as whitespace (space, \t, \n).
Whitespace == {32, 9, 10}

RECURSIVE LStrip(_)
LStrip(s) ==
    IF Len(s) > 0 /\ s[1] \in Whitespace THEN LStrip(Tail(s)) ELSE s

RECURSIVE RStrip(_)
RStrip(s) ==
    IF Len(s) > 0 /\ s[Len(s)] \in Whitespace
    THEN RStrip(SubSeq(s, 1, Len(s) - 1))
    ELSE s

Strip(s) == RStrip(LStrip(s))

\* AudioProcessingStatus
NOT_STARTED == "Not Started"

PROCESSING == "Processing"

COMPLETED == "Completed"

FAILED == "Failed"

\* ------------------------------------------------------- Meeting document

\* The fields class Meeting declares.  pydantic refuses an assignment to a
\* name that is not a declared field with ValueError('"Meeting" object has
\* no field ...'): the document has no dub_* and no infographic_* field.
MeetingFields ==
    { "title", "meeting_type", "status", "fundraising_id", "contact_id",
      "scheduled_date", "actual_date", "duration_minutes", "location",
      "is_virtual", "attendees", "tnifmc_representatives",
      "audio_recording", "agenda", "discussion_points", "action_items",
      "notes", "ai_summary", "ai_key_points", "ai_action_items",
      "ai_sentiment", "created_by", "created_at", "updated_at" }

DubFields ==
    { "dub_filename", "dub_text", "dub_generated_at", "dub_voice",
      "dub_format" }

InfographicFields ==
    { "infographic_filename", "infographic_description",
      "infographic_generated_at" }

\* A document as create_meeting inserts it: no audio recording, no AI
\* content.  Fields the pipeline neither reads nor writes stay None.
NewMeeting(fid, date) ==
    [f \in MeetingFields |->
        CASE f = "fundraising_id" -> Some(fid)
          [] f = "scheduled_date" -> Some(date)
          [] OTHER -> None]

\* AudioRecording(...) as upload_audio_recording builds it.
NewAudioRecording(filename) ==
    [ filename |-> filename,
      processing_status |-> NOT_STARTED,
      transcript |-> None,
      transcript_summary |-> None,
      ai_insights |-> None ]

\* setattr(meeting, field, value) on a pydantic model.
CanSet(doc, field) == field \in DOMAIN doc

SetAttr(doc, field, value) == [doc EXCEPT ![field] = value]

\* meeting.audio_recording.<field> = value
SetAudio(doc, field, value) ==
    [doc EXCEPT !["audio_recording"] =
        Some([doc["audio_recording"][1] EXCEPT ![field] = value])]

\* Reading a field that may not be declared (None when it is not).
FieldOf(doc, field) == IF field \in DOMAIN doc THEN doc[field] ELSE None

HasAudio(doc) == doc["audio_recording"] # None

\* The test with its second half lost: only "not meeting".
AudioMissingMeetingOnly(got) == got = None

\* "not meeting or not meeting.audio_recording" of a Meeting.get result.
AudioMissing(got) == got = None \/ ~HasAudio(got[1])

Audio(doc) == doc["audio_recording"][1]

\* ---------------------------------------------------------- AI provider

\* What the speech-to-text endpoint may answer: None when the call raises,
\* else the raw text.
RawTranscripts == { <<32>>, <<32, 97, 10>> }

TranscriptionResponses == {None} \cup { Some(t) : t \in RawTranscripts }

\* An outcome of a call of the service: a value or a raised exception.
Ok(v) == [ok |-> TRUE, err |-> "none", val |-> v]

Raise(e) == [ok |-> FALSE, err |-> e, val |-> None]

\* The "Validate API key availability" check made before each provider call.
KeyMissing(key) == ~key

\* _transcribe_audio returning the provider's text as it came.
TranscribeAudioUntrimmed(fileExists, key, resp) ==
    IF ~fileExists THEN Raise("FileNotFoundError")
    ELSE IF KeyMissing(key) THEN Raise("RuntimeError_not_configured")
    ELSE IF resp = None THEN Raise("APIError")
    ELSE Ok(resp[1])

\* _transcribe_audio: the file check, the key check, then one provider call
\* whose text is stripped.
TranscribeAudio(fileExists, key, resp) ==
    IF ~fileExists THEN Raise("FileNotFoundError")
    ELSE IF KeyMissing(key) THEN Raise("RuntimeError_not_configured")
    ELSE IF resp = None THEN Raise("APIError")
    ELSE Ok(Strip(resp[1]))

\* Whether _transcribe_audio got as far as the provider call.
TranscribeCalls(fileExists, key) ==
    IF fileExists /\ ~KeyMissing(key) THEN <<"transcribe">> ELSE <<>>

\* The nine keys the analysis prompt asks for.
AnalysisKeys ==
    { "summary", "key_points", "action_items", "sentiment",
      "topics_discussed", "participants_mood", "follow_up_needed",
      "risks_concerns", "opportunities" }

\* The fixed analysis returned when the completion is not valid JSON.
FallbackAnalysis ==
    [ summary |-> <<77, 101, 101, 116, 105, 110, 103, 32, 116, 114, 97, 110,
                    115, 99, 114, 105, 112, 116, 32, 97, 110, 97, 108, 121,
                    115, 105, 115, 32, 99, 111, 109, 112, 108, 101, 116,
                    101, 100, 46>>,
      key_points |-> << <<84, 114, 97, 110, 115, 99, 114, 105, 112, 116, 32,
                         112, 114, 111, 99, 101, 115, 115, 101, 100, 32, 115,
                         117, 99, 99, 101, 115, 115, 102, 117, 108, 108,
                         121>> >>,
      action_items |-> << <<82, 101, 118, 105, 101, 119, 32, 65, 73, 32, 97,
                           110, 97, 108, 121, 115, 105, 115, 32, 102, 111,
                           114, 32, 100, 101, 116, 97, 105, 108, 101, 100,
                           32, 105, 110, 115, 105, 103, 104, 116, 115>> >>,
      sentiment |-> <<110, 101, 117, 116, 114, 97, 108>>,
      topics_discussed |-> << <<77, 101, 101, 116, 105, 110, 103, 32, 99,
                               111, 110, 116, 101, 110, 116, 32, 97, 110, 97,
                               108, 121, 122, 101, 100>> >>,
      participants_mood |-> <<80, 114, 111, 102, 101, 115, 115, 105, 111,
                              110, 97, 108>>,
      follow_up_needed |-> <<82, 101, 118, 105, 101, 119, 32, 100, 101, 116,
                             97, 105, 108, 101, 100, 32, 97, 110, 97, 108,
                             121, 115, 105, 115>>,
      risks_concerns |-> << >>,
      opportunities |-> << <<65, 73, 45, 112, 111, 119, 101, 114, 101, 100,
                            32, 105, 110, 115, 105, 103, 104, 116, 115, 32,
                            103, 101, 110, 101, 114, 97, 116, 101, 100>> >> ]

\* A well-formed analysis as the model may return it.
FullAnalysis ==
    [ summary |-> <<83>>,
      key_points |-> << <<75>> >>,
      action_items |-> << <<65>> >>,
      sentiment |-> <<112, 111, 115, 105, 116, 105, 118, 101>>,
      topics_discussed |-> << <<84>> >>,
      participants_mood |-> <<77>>,
      follow_up_needed |-> <<70>>,
      risks_concerns |-> << <<82>> >>,
      opportunities |-> << <<79>> >> ]

\* d restricted to the keys in ks: a JSON object that lacks the others.
Restrict(d, ks) == [k \in ks |-> d[k]]

\* JSON objects the model may return: all keys, only some, or none.
AnalysisObjects ==
    { FullAnalysis, Restrict(FullAnalysis, {"action_items", "sentiment"}),
      Restrict(FullAnalysis, {}) }

\* The text of a chat completion, by what json.loads makes of it: not JSON
\* ("invalid"), a JSON object, or JSON of another type (an array); fenced
\* when it is wrapped in a ```json ... ``` block.
CompletionTexts ==
    { [fenced |-> f, kind |-> "invalid", value |-> Restrict(FullAnalysis, {})]
        : f \in BOOLEAN }
    \cup { [fenced |-> f, kind |-> "array", value |-> Restrict(FullAnalysis, {})]
        : f \in BOOLEAN }
    \cup { [fenced |-> f, kind |-> "object", value |-> o]
        : f \in BOOLEAN, o \in AnalysisObjects }

\* What the chat endpoint may answer to the analysis request.
AnalysisResponses == {None} \cup { Some(c) : c \in CompletionTexts }

\* re.sub(r'```json\s*|\s*```', '', text)
ReSubFences(text) == [text EXCEPT !.fenced = FALSE]

\* json.loads(text): JSONDecodeError unless the text is JSON.
JsonLoads(text) ==
    IF text.fenced \/ text.kind = "invalid"
    THEN Raise("JSONDecodeError")
    ELSE Ok([kind |-> text.kind, value |-> text.value])

\* _analyze_transcript without its except branch: the parse error escapes.
AnalyzeTranscriptStrict(key, resp) ==
    IF KeyMissing(key) THEN Raise("RuntimeError_not_configured")
    ELSE IF resp = None THEN Raise("APIError")
    ELSE LET parsed == JsonLoads(ReSubFences(resp[1]))
         IN  IF parsed.ok THEN Ok(parsed.val) ELSE Raise("JSONDecodeError")

\* _analyze_transcript falling back whenever the parsed JSON is no object.
AnalyzeTranscriptLenient(key, resp) ==
    IF KeyMissing(key) THEN Raise("RuntimeError_not_configured")
    ELSE IF resp = None THEN Raise("APIError")
    ELSE LET parsed == JsonLoads(ReSubFences(resp[1]))
         IN  IF parsed.ok /\ parsed.val.kind = "object"
             THEN Ok(parsed.val)
             ELSE Ok([kind |-> "object", value |-> FallbackAnalysis])

\* _analyze_transcript: key check, one completion call, parse with fallback.
AnalyzeTranscript(key, resp) ==
    IF KeyMissing(key) THEN Raise("RuntimeError_not_configured")
    ELSE IF resp = None THEN Raise("APIError")
    ELSE LET parsed == JsonLoads(ReSubFences(resp[1]))
         IN  IF parsed.ok
             THEN Ok(parsed.val)
             ELSE Ok([kind |-> "object", value |-> FallbackAnalysis])

\* The provider call made by _analyze_transcript and, after it, whether the
\* except branch of lines 146-158 was taken.
AnalyzeCalls(key, resp) ==
    IF KeyMissing(key) THEN <<>>
    ELSE IF resp = None THEN <<"complete">>
    ELSE IF JsonLoads(ReSubFences(resp[1])).ok THEN <<"complete">>
    ELSE <<"complete", "json_fallback">>

\* dict.get that ignores its default: a missing key gives None.
DictGetNoDefault(d, k, default) == IF k \in DOMAIN d THEN Some(d[k]) ELSE None

\* dict.get(key) and dict.get(key, default) as Optional values.
DictGet(d, k, default) == IF k \in DOMAIN d THEN Some(d[k]) ELSE default

\* The results written with the new key points added to the ones the meeting
\* already has.
ApplyResultsAccumulating(doc, transcript, analysis) ==
    LET d1 == SetAudio(doc, "transcript", Some(transcript))
    IN  IF analysis.kind # "object"
        THEN [ok |-> FALSE, err |-> "AttributeError", doc |-> d1]
        ELSE LET a  == analysis.value
                 d2 == SetAudio(d1, "transcript_summary",
                                DictGet(a, "summary", None))
                 d3 == SetAudio(d2, "ai_insights", Some(a))
                 d4 == SetAudio(d3, "processing_status", COMPLETED)
                 d5 == SetAttr(d4, "ai_summary", DictGet(a, "summary", None))
                 d6 == SetAttr(d5, "ai_key_points",
                               Some((IF doc["ai_key_points"] = None THEN <<>>
                                     ELSE doc["ai_key_points"][1])
                                    \o DictGet(a, "key_points", Some(<<>>))[1]))
                 d7 == SetAttr(d6, "ai_action_items",
                               DictGet(a, "action_items", Some(<<>>)))
                 d8 == SetAttr(d7, "ai_sentiment",
                               DictGet(a, "sentiment", None))
             IN  [ok |-> TRUE, err |-> "none", doc |-> d8]

\* The results written without promoting the summary to the meeting.
ApplyResultsUnpromoted(doc, transcript, analysis) ==
    LET d1 == SetAudio(doc, "transcript", Some(transcript))
    IN  IF analysis.kind # "object"
        THEN [ok |-> FALSE, err |-> "AttributeError", doc |-> d1]
        ELSE LET a  == analysis.value
                 d2 == SetAudio(d1, "transcript_summary",
                                DictGet(a, "summary", None))
                 d3 == SetAudio(d2, "ai_insights", Some(a))
                 d4 == SetAudio(d3, "processing_status", COMPLETED)
                 d6 == SetAttr(d4, "ai_key_points",
                               DictGet(a, "key_points", Some(<<>>)))
                 d7 == SetAttr(d6, "ai_action_items",
                               DictGet(a, "action_items", Some(<<>>)))
                 d8 == SetAttr(d7, "ai_sentiment",
                               DictGet(a, "sentiment", None))
             IN  [ok |-> TRUE, err |-> "none", doc |-> d8]

\* Lines 54-66: the results written to the in-memory meeting.  analysis.get
\* raises AttributeError when the parsed JSON is not an object, after the
\* transcript was already assigned.
ApplyResults(doc, transcript, analysis) ==
    LET d1 == SetAudio(doc, "transcript", Some(transcript))
    IN  IF analysis.kind # "object"
        THEN [ok |-> FALSE, err |-> "AttributeError", doc |-> d1]
        ELSE LET a  == analysis.value
                 d2 == SetAudio(d1, "transcript_summary",
                                DictGet(a, "summary", None))
                 d3 == SetAudio(d2, "ai_insights", Some(a))
                 d4 == SetAudio(d3, "processing_status", COMPLETED)
                 d5 == SetAttr(d4, "ai_summary", DictGet(a, "summary", None))
                 d6 == SetAttr(d5, "ai_key_points",
                               DictGet(a, "key_points", Some(<<>>)))
                 d7 == SetAttr(d6, "ai_action_items",
                               DictGet(a, "action_items", Some(<<>>)))
                 d8 == SetAttr(d7, "ai_sentiment",
                               DictGet(a, "sentiment", None))
             IN  [ok |-> TRUE, err |-> "none", doc |-> d8]

\* ------------------------------------------------------------------ state

VARIABLES
    store,       \* meeting record store: meeting id -> stored document
    dubFiles,    \* uploads/dubs: file name -> what was synthesized into it
    imageFiles,  \* uploads/images: names of the files written
    inv,         \* per handler invocation: its position and local values
    started      \* number of invocations begun so far

vars == <<store, dubFiles, imageFiles, inv, started>>

\* Ids a request may name: the stored meetings and one id of no meeting.
MissingId == "missing"

RequestIds == DOMAIN store \cup {MissingId}

\* Meeting.get(meeting_id): a copy of the stored document, or None.
Get(m) == IF m \in DOMAIN store THEN Some(store[m]) ELSE None

\* meeting.save(): the whole in-memory document replaces the stored one; the
\* store may refuse the write (connection lost), which raises.
SaveOutcomes == BOOLEAN

Saved(m, doc, ok) == IF ok THEN [store EXCEPT ![m] = doc] ELSE store

SaveEvent(ok) == IF ok THEN "save" ELSE "save_failed"

Idle ==
    [ op |-> "idle", pc |-> "idle", mid |-> MissingId, key |-> FALSE,
      voice |-> "none", fmt |-> "none", payload |-> None,
      meeting |-> None, transcript |-> None, out |-> None,
      trace |-> <<>>, status |-> "none", error |-> "none", cause |-> "none" ]

\* A fresh invocation of operation op on meeting m; key: whether a
\* credential (request header or OPENAI_API_KEY) is available to it.
Begin(op, m, key) == [Idle EXCEPT !.op = op, !.mid = m, !.key = key]

\* The invocation has returned (status "success") or raised (status "error").
Done(r, status, error, cause, trace) ==
    [r EXCEPT !.pc = "done", !.meeting = None, !.transcript = None,
              !.voice = "none", !.fmt = "none", !.payload = None,
              !.status = status, !.error = error, !.cause = cause,
              !.trace = trace]

Free(p) == inv[p].pc \in {"idle", "done"}

\* A request is taken by the first worker that is free.
CanStart(p) ==
    /\ started < MaxInvocations
    /\ Free(p)
    /\ \A q \in Procs : q < p => ~Free(q)

\* ------------------------------------------- process_audio_recording

\* Lines 36-39: load the meeting; ValueError when it or its recording is
\* missing.
ProcessStart(p) ==
    /\ CanStart(p)
    /\ started' = started + 1
    /\ \E m \in RequestIds, key \in BOOLEAN :
         LET got == Get(m)
             r   == Begin("process", m, key)
         IN  inv' = [inv EXCEPT ![p] =
                 IF AudioMissing(got)
                 THEN Done(r, "error", "ValueError", "none", <<>>)
                 ELSE [r EXCEPT !.pc = "par_loaded", !.meeting = got]]
    /\ UNCHANGED <<store, dubFiles, imageFiles>>

\* The handler saving the meeting without marking it.
FailedDocUnmarked(doc) == doc

\* The handler marking the meeting FAILED and dropping its earlier results.
FailedDocCleared(doc) ==
    [doc EXCEPT !["audio_recording"] =
        Some([NewAudioRecording(doc["audio_recording"][1].filename) EXCEPT
                 !.processing_status = FAILED]),
         !["ai_summary"] = None]

\* Line 76: the except handler marks the in-memory meeting FAILED.
FailedDoc(doc) == SetAudio(doc, "processing_status", FAILED)

\* The first save made without the status assignment.
ProcessingDocUnmarked(doc) == doc

\* Line 43.
ProcessingDoc(doc) == SetAudio(doc, "processing_status", PROCESSING)

\* The handler without its raise: a saved FAILED ends the call normally.
ProcessFailedSwallowed(p, r, doc, cause, okF, trace) ==
    /\ store' = Saved(r.mid, FailedDoc(doc), okF)
    /\ inv' = [inv EXCEPT ![p] =
           Done(r, IF okF THEN "success" ELSE "error",
                IF okF THEN "none" ELSE "StoreError", cause,
                Append(trace, SaveEvent(okF)))]

\* Lines 74-79: the handler saves FAILED and raises
\* Exception("Audio processing failed: ..."); when that save raises, its
\* exception is what the caller gets.
HandlerError(okF) == IF okF THEN "Exception" ELSE "StoreError"

ProcessFailed(p, r, doc, cause, okF, trace) ==
    /\ store' = Saved(r.mid, FailedDoc(doc), okF)
    /\ inv' = [inv EXCEPT ![p] =
           Done(r, "error", HandlerError(okF), cause,
                Append(trace, SaveEvent(okF)))]

\* Lines 41-44: status PROCESSING is saved before anything else.
ProcessSaveProcessing(p) ==
    /\ UNCHANGED started
    /\ inv[p].pc = "par_loaded"
    /\ \E ok \in SaveOutcomes :
         LET r   == inv[p]
             doc == ProcessingDoc(r.meeting[1])
             tr  == Append(r.trace, SaveEvent(ok))
         IN  IF ok
             THEN /\ store' = Saved(r.mid, doc, TRUE)
                  /\ inv' = [inv EXCEPT ![p] =
                         [r EXCEPT !.pc = "par_processing",
                                   !.meeting = Some(doc), !.trace = tr]]
             ELSE \E okF \in SaveOutcomes :
                      ProcessFailed(p, r, doc, "StoreError", okF, tr)
    /\ UNCHANGED <<dubFiles, imageFiles>>

\* Lines 68-72: the value returned, kept with the provider's two answers it
\* was computed from and with whether the meeting as loaded already held
\* this transcript and this analysis (a run repeated on unchanged input).
ProcessResult(doc, transcript, analysis, tresp, aresp) ==
    Some([ transcript |-> transcript,
           analysis |-> analysis,
           gateway |-> [transcript |-> tresp[1], completion |-> aresp[1]],
           repeated |-> /\ Audio(doc).transcript = Some(transcript)
                        /\ Audio(doc).ai_insights = Some(analysis) ])

\* Lines 46-79: transcribe, analyze, write the results and save COMPLETED;
\* any exception on the way goes to the handler.
ProcessRun(p) ==
    /\ UNCHANGED started
    /\ inv[p].pc = "par_processing"
    /\ \E fileExists \in BOOLEAN, tresp \in TranscriptionResponses :
         LET r   == inv[p]
             doc == r.meeting[1]
             t   == TranscribeAudio(fileExists, r.key, tresp)
             tr1 == r.trace \o TranscribeCalls(fileExists, r.key)
         IN  IF ~t.ok
             THEN \E okF \in SaveOutcomes :
                      ProcessFailed(p, r, doc, t.err, okF, tr1)
             ELSE
             \E aresp \in AnalysisResponses :
             LET a   == AnalyzeTranscript(r.key, aresp)
                 tr2 == tr1 \o AnalyzeCalls(r.key, aresp)
             IN  IF ~a.ok
                 THEN \E okF \in SaveOutcomes :
                          ProcessFailed(p, r, doc, a.err, okF, tr2)
                 ELSE
                 LET res == ApplyResults(doc, t.val, a.val)
                 IN  IF ~res.ok
                     THEN \E okF \in SaveOutcomes :
                              ProcessFailed(p, r, res.doc, res.err, okF, tr2)
                     ELSE
                     \E ok \in SaveOutcomes :
                     LET tr3 == Append(tr2, SaveEvent(ok))
                     IN  IF ~ok
                         THEN \E okF \in SaveOutcomes :
                                  ProcessFailed(p, r, res.doc, "StoreError",
                                                okF, tr3)
                         ELSE /\ store' = Saved(r.mid, res.doc, TRUE)
                              /\ inv' = [inv EXCEPT ![p] =
                                     Done([r EXCEPT !.out =
                                               ProcessResult(doc, t.val,
                                                             a.val.value,
                                                             tresp, aresp)],
                                          "success", "none", "none", tr3)]
    /\ UNCHANGED <<dubFiles, imageFiles>>

\* ------------------------------------------------ controller: CRUD saves

\* upload_audio_recording, lines 223-228: load the meeting.
UploadStart(p) ==
    /\ CanStart(p)
    /\ started' = started + 1
    /\ \E m \in RequestIds :
         LET got == Get(m)
             r   == Begin("upload", m, FALSE)
         IN  inv' = [inv EXCEPT ![p] =
                 IF got = None
                 THEN Done(r, "error", "HTTPException_404", "none", <<>>)
                 ELSE [r EXCEPT !.pc = "upl_loaded", !.meeting = got]]
    /\ UNCHANGED <<store, dubFiles, imageFiles>>

\* upload_audio_recording, lines 258-267: a fresh AudioRecording replaces
\* the old one on the in-memory meeting, which is saved whole.
UploadSave(p) ==
    /\ UNCHANGED started
    /\ inv[p].pc = "upl_loaded"
    /\ \E ok \in SaveOutcomes :
         LET r   == inv[p]
             doc == SetAttr(r.meeting[1], "audio_recording",
                            Some(NewAudioRecording("upload")))
         IN  /\ store' = Saved(r.mid, doc, ok)
             /\ inv' = [inv EXCEPT ![p] =
                    IF ok
                    THEN Done(r, "success", "none", "none", <<"save">>)
                    ELSE Done(r, "error", "StoreError", "none",
                              <<"save_failed">>)]
    /\ UNCHANGED <<dubFiles, imageFiles>>

\* MeetingUpdateRequest bodies (exclude_unset): the fields the request sets.
\* Of the descriptive fields only notes is read by the pipeline.
UpdatePayloads ==
    { Restrict([notes |-> Some(<<78>>)], {}), [notes |-> Some(<<78>>)] }

\* update_meeting, lines 195-200: load the meeting.
UpdateStart(p) ==
    /\ CanStart(p)
    /\ started' = started + 1
    /\ \E m \in RequestIds, body \in UpdatePayloads :
         LET got == Get(m)
             r   == [Begin("update", m, FALSE) EXCEPT !.payload = Some(body)]
         IN  inv' = [inv EXCEPT ![p] =
                 IF got = None
                 THEN Done(r, "error", "HTTPException_404", "none", <<>>)
                 ELSE [r EXCEPT !.pc = "upd_loaded", !.meeting = got]]
    /\ UNCHANGED <<store, dubFiles, imageFiles>>

\* update_meeting, lines 203-205: setattr for every field of the body.
ApplyUpdate(doc, body) ==
    [f \in DOMAIN doc |-> IF f \in DOMAIN body THEN body[f] ELSE doc[f]]

\* update_meeting, lines 202-208: the edited in-memory meeting is saved whole.
UpdateSave(p) ==
    /\ UNCHANGED started
    /\ inv[p].pc = "upd_loaded"
    /\ \E ok \in SaveOutcomes :
         LET r   == inv[p]
             doc == ApplyUpdate(r.meeting[1], r.payload[1])
         IN  /\ store' = Saved(r.mid, doc, ok)
             /\ inv' = [inv EXCEPT ![p] =
                    IF ok
                    THEN Done(r, "success", "none", "none", <<"save">>)
                    ELSE Done(r, "error", "StoreError", "none",
                              <<"save_failed">>)]
    /\ UNCHANGED <<dubFiles, imageFiles>>

\* ------------------------------------------------- generate_meeting_insights

\* What the chat endpoint may answer to a free-form request: None when the
\* call raises, else the text.
TextResponses == { None, Some(<<32, 69, 110, 32>>) }

\* Lines 160-194: load, "transcript not available" check, key check, one
\* completion call; nothing is written.
MeetingInsights(p) ==
    /\ CanStart(p)
    /\ started' = started + 1
    /\ \E m \in RequestIds, key \in BOOLEAN, resp \in TextResponses :
         LET got == Get(m)
             r   == Begin("insight", m, key)
         IN  inv' = [inv EXCEPT ![p] =
                 IF \/ AudioMissing(got)
                    \/ ~TruthyText(Audio(got[1]).transcript)
                 THEN Done(r, "error", "ValueError", "none", <<>>)
                 ELSE IF KeyMissing(key)
                 THEN Done(r, "error", "RuntimeError_not_configured", "none",
                           <<>>)
                 ELSE IF resp = None
                 THEN Done(r, "error", "APIError", "none", <<"complete">>)
                 ELSE Done(r, "success", "none", "none", <<"complete">>)]
    /\ UNCHANGED <<store, dubFiles, imageFiles>>

\* ------------------------------------------------------- auto_dub_meeting

\* Request parameters of the autodub endpoint.
Voices == {"alloy"}

Formats == {"mp3"}

\* Line 400: how much of the transcript the heuristic looks at.
TranslationPrefix == 200

\* The heuristic looking at the whole transcript.
NeedsTranslationAnywhere(transcript) ==
    \E i \in 1..Len(transcript) : transcript[i] > 127

\* Line 400: any(ord(ch) > 127 for ch in transcript[:200])
NeedsTranslation(transcript) ==
    \E i \in 1..Len(transcript) : i <= TranslationPrefix /\ transcript[i] > 127

\* Lines 406-434: one completion call, translation or cleanup.
TranslateCall(transcript) ==
    IF NeedsTranslation(transcript)
    THEN <<"complete_translate">>
    ELSE <<"complete_cleanup">>

\* Outcomes of the inline-audio completion (raises, no audio in the
\* response, audio) and of the speech endpoint (raises, audio).
PrimaryOutcomes == {"raise", "empty", "audio"}

FallbackOutcomes == {"raise", "audio"}

\* Synthesis that does not notice the speech endpoint failing.
SynthesizeUnchecked(primary, fallback) ==
    IF primary = "audio" THEN Ok("primary") ELSE Ok("fallback")

\* Lines 444-470: the inline-audio path first; the speech endpoint when it
\* raised or returned no audio; RuntimeError when that fails too.
Synthesize(primary, fallback) ==
    IF primary = "audio" THEN Ok("primary")
    ELSE IF fallback = "audio" THEN Ok("fallback")
    ELSE Raise("RuntimeError_tts")

\* The synthesis calls made, each with its outcome.
SynthesizeCalls(primary, fallback) ==
    IF primary = "audio" THEN <<"tts_primary_audio">>
    ELSE << IF primary = "raise" THEN "tts_primary_raise"
                                 ELSE "tts_primary_empty",
            IF fallback = "raise" THEN "tts_fallback_raise"
                                  ELSE "tts_fallback_audio" >>

\* Line 441.
DubFilename(m, fmt) == <<m, "_dub.", fmt>>

\* Lines 476-481: the dub metadata assigned to the in-memory meeting.
DubDoc(doc, m, english, voice, fmt) ==
    [f \in DOMAIN doc |->
        CASE f = "dub_filename" -> Some(DubFilename(m, fmt))
          [] f = "dub_text" -> Some(english)
          [] f = "dub_voice" -> Some(voice)
          [] f = "dub_format" -> Some(fmt)
          [] f = "dub_generated_at" -> Some("now")
          [] OTHER -> doc[f]]

\* Lines 385-387: load the meeting; ValueError when it or its recording is
\* missing.
DubStart(p) ==
    /\ CanStart(p)
    /\ started' = started + 1
    /\ \E m \in RequestIds, key \in BOOLEAN, v \in Voices, fmt \in Formats :
         LET got == Get(m)
             r   == [Begin("dub", m, key) EXCEPT !.voice = v, !.fmt = fmt]
         IN  inv' = [inv EXCEPT ![p] =
                 IF AudioMissing(got)
                 THEN Done(r, "error", "ValueError", "none", <<>>)
                 ELSE [r EXCEPT !.pc = "dub_loaded", !.meeting = got]]
    /\ UNCHANGED <<store, dubFiles, imageFiles>>

\* Lines 389-396: without a transcript, transcribe, assign it to the
\* in-memory meeting and save; else take the stored transcript.
DubEnsureTranscript(p) ==
    /\ UNCHANGED started
    /\ inv[p].pc = "dub_loaded"
    /\ LET r   == inv[p]
           doc == r.meeting[1]
       IN  IF TruthyText(Audio(doc).transcript)
           THEN /\ inv' = [inv EXCEPT ![p] =
                      [r EXCEPT !.pc = "dub_ready",
                                !.transcript = Audio(doc).transcript]]
                /\ store' = store
           ELSE
           \E fileExists \in BOOLEAN, tresp \in TranscriptionResponses :
             LET t   == TranscribeAudio(fileExists, r.key, tresp)
                 tr1 == r.trace \o TranscribeCalls(fileExists, r.key)
             IN  IF ~t.ok
                 THEN /\ inv' = [inv EXCEPT ![p] =
                            Done(r, "error", t.err, "none", tr1)]
                      /\ store' = store
                 ELSE
                 \E ok \in SaveOutcomes :
                 LET d1  == SetAudio(doc, "transcript", Some(t.val))
                     tr2 == Append(tr1, SaveEvent(ok))
                 IN  /\ store' = Saved(r.mid, d1, ok)
                     /\ inv' = [inv EXCEPT ![p] =
                            IF ok
                            THEN [r EXCEPT !.pc = "dub_ready",
                                           !.meeting = Some(d1),
                                           !.transcript = Some(t.val),
                                           !.trace = tr2]
                            ELSE Done(r, "error", "StoreError", "none", tr2)]
    /\ UNCHANGED <<dubFiles, imageFiles>>

\* Lines 398-488: translate or clean up, synthesize, write the dub file,
\* assign the dub metadata and save.
DubSynthesize(p) ==
    /\ UNCHANGED started
    /\ inv[p].pc = "dub_ready"
    /\ LET r    == inv[p]
           doc  == r.meeting[1]
           text == r.transcript[1]
           tr1  == r.trace \o TranslateCall(text)
           name == DubFilename(r.mid, r.fmt)
       IN  IF KeyMissing(r.key)
           THEN /\ inv' = [inv EXCEPT ![p] =
                      Done(r, "error", "RuntimeError_not_configured",
                           "none", r.trace)]
                /\ UNCHANGED <<store, dubFiles>>
           ELSE
           \E resp \in TextResponses :
             IF resp = None
             THEN /\ inv' = [inv EXCEPT ![p] =
                        Done(r, "error", "APIError", "none", tr1)]
                  /\ UNCHANGED <<store, dubFiles>>
             ELSE
             \E primary \in PrimaryOutcomes, fallback \in FallbackOutcomes :
             LET english == Strip(resp[1])
                 s       == Synthesize(primary, fallback)
                 tr2     == tr1 \o SynthesizeCalls(primary, fallback)
                 tr3     == Append(tr2, "file_write")
             IN  IF ~s.ok
                 THEN /\ inv' = [inv EXCEPT ![p] =
                            Done(r, "error", s.err, "none", tr2)]
                      /\ UNCHANGED <<store, dubFiles>>
                 ELSE
                 /\ dubFiles' =
                        [n \in DOMAIN dubFiles \cup {name} |->
                            IF n = name
                            THEN [text |-> english, voice |-> r.voice]
                            ELSE dubFiles[n]]
                 /\ IF ~CanSet(doc, "dub_filename")
                    THEN /\ inv' = [inv EXCEPT ![p] =
                               Done(r, "error", "ValueError_no_field",
                                    "none", tr3)]
                         /\ store' = store
                    ELSE \E ok \in SaveOutcomes :
                         /\ store' =
                               Saved(r.mid,
                                     DubDoc(doc, r.mid, english, r.voice,
                                            r.fmt), ok)
                         /\ inv' = [inv EXCEPT ![p] =
                               IF ok
                               THEN Done(r, "success", "none", "none",
                                         Append(tr3, "save"))
                               ELSE Done(r, "error", "StoreError", "none",
                                         Append(tr3, "save_failed"))]
    /\ UNCHANGED imageFiles

\* ---------------------------------------------------- infographic endpoint

\* Outcomes of images.generate: raises, a response without b64_json, an image.
ImageOutcomes == {"raise", "empty", "image"}

\* A file name that does not depend on the meeting.
InfographicFilenameShared(m) == <<"meeting", "_infographic.png">>

\* Line 239.
InfographicFilename(m) == <<m, "_infographic.png">>

\* Controller lines 427-429.
InfographicDoc(doc, m) ==
    [f \in DOMAIN doc |->
        CASE f = "infographic_filename" -> Some(InfographicFilename(m))
          [] f = "infographic_description" -> Some("description")
          [] f = "infographic_generated_at" -> Some("now")
          [] OTHER -> doc[f]]

\* generate_infographic_for_meeting, lines 198-244: its own load, the key
\* check, one image call, the file write.
InfographicForMeeting(m, key, image) ==
    IF Get(m) = None THEN Raise("ValueError")
    ELSE IF KeyMissing(key) THEN Raise("RuntimeError_not_configured")
    ELSE IF image = "raise" THEN Raise("APIError")
    ELSE IF image = "empty" THEN Raise("RuntimeError_no_image")
    ELSE Ok(InfographicFilename(m))

InfographicCalls(m, key) ==
    IF Get(m) = None \/ KeyMissing(key) THEN <<>> ELSE <<"image">>

\* Controller lines 419-421: the endpoint loads the meeting itself.
InfographicStart(p) ==
    /\ CanStart(p)
    /\ started' = started + 1
    /\ \E m \in RequestIds, key \in BOOLEAN :
         LET got == Get(m)
             r   == Begin("infographic", m, key)
         IN  inv' = [inv EXCEPT ![p] =
                 IF got = None
                 THEN Done(r, "error", "HTTPException_404", "none", <<>>)
                 ELSE [r EXCEPT !.pc = "info_loaded", !.meeting = got]]
    /\ UNCHANGED <<store, dubFiles, imageFiles>>

\* Controller lines 423-438: call the service, then assign the infographic
\* metadata to the copy loaded before and save it; every exception becomes
\* HTTP 400.
InfographicGenerate(p) ==
    /\ UNCHANGED started
    /\ inv[p].pc = "info_loaded"
    /\ \E image \in ImageOutcomes :
         LET r   == inv[p]
             doc == r.meeting[1]
             g   == InfographicForMeeting(r.mid, r.key, image)
             tr1 == r.trace \o InfographicCalls(r.mid, r.key)
             tr2 == Append(tr1, "file_write")
         IN  IF ~g.ok
             THEN /\ inv' = [inv EXCEPT ![p] =
                        Done(r, "error", "HTTPException_400", g.err, tr1)]
                  /\ UNCHANGED <<store, imageFiles>>
             ELSE /\ imageFiles' = imageFiles \cup {g.val}
                  /\ IF ~CanSet(doc, "infographic_filename")
                     THEN /\ inv' = [inv EXCEPT ![p] =
                                Done(r, "error", "HTTPException_400",
                                     "ValueError_no_field", tr2)]
                          /\ store' = store
                     ELSE \E ok \in SaveOutcomes :
                          /\ store' =
                                Saved(r.mid, InfographicDoc(doc, r.mid), ok)
                          /\ inv' = [inv EXCEPT ![p] =
                                IF ok
                                THEN Done(r, "success", "none", "none",
                                          Append(tr2, "save"))
                                ELSE Done(r, "error", "HTTPException_400",
                                          "StoreError",
                                          Append(tr2, "save_failed"))]
    /\ UNCHANGED dubFiles

\* ------------------------------------------------ generate_campaign_insights

\* Lines 272-276 and 279: the character budgets.
SummaryBudget == 800

TranscriptBudget == 1500

\* "..." appended to a cut text.
Ellipsis == <<46, 46, 46>>

\* truncate cutting a text that is exactly max_chars long.
TruncateExclusive(text, maxChars) ==
    IF ~TruthyText(text) THEN <<>>
    ELSE IF Len(text[1]) < maxChars THEN text[1]
    ELSE SubSeq(text[1], 1, maxChars) \o Ellipsis

\* Lines 260-263: truncate(text, max_chars) of an Optional[str].
Truncate(text, maxChars) ==
    IF ~TruthyText(text) THEN <<>>
    ELSE IF Len(text[1]) <= maxChars THEN text[1]
    ELSE SubSeq(text[1], 1, maxChars) \o Ellipsis

\* '\n'.join(items)
RECURSIVE JoinLines(_)
JoinLines(items) ==
    IF Len(items) = 0 THEN <<>>
    ELSE IF Len(items) = 1 THEN items[1]
    ELSE items[1] \o <<10>> \o JoinLines(Tail(items))

\* Lines 268-281: the labelled parts of one meeting's context block.
ContextParts(doc) ==
    << <<"Title", doc["title"]>>, <<"Date", doc["scheduled_date"]>>,
       <<"Type", doc["meeting_type"]>>, <<"Status", doc["status"]>> >>
    \o (IF TruthyText(doc["ai_summary"])
        THEN << <<"AI Summary", Truncate(doc["ai_summary"], SummaryBudget)>> >>
        ELSE <<>>)
    \o (IF TruthyList(doc["ai_key_points"])
        THEN << <<"AI Key Points",
                  Truncate(Some(JoinLines(doc["ai_key_points"][1])),
                           SummaryBudget)>> >>
        ELSE <<>>)
    \o (IF TruthyText(doc["notes"])
        THEN << <<"Notes", Truncate(doc["notes"], SummaryBudget)>> >>
        ELSE <<>>)
    \o (IF /\ HasAudio(doc)
           /\ TruthyText(Audio(doc).transcript)
           /\ ~TruthyText(doc["ai_summary"])
           /\ ~TruthyText(doc["notes"])
        THEN << <<"Transcript excerpt",
                  Truncate(Audio(doc).transcript, TranscriptBudget)>> >>
        ELSE <<>>)

\* Campaign ids a request may name.
CampaignIds == {"f1", "f2"}

\* The query without its meeting-id filter.
MatchingWholeCampaign(fid, ids) ==
    { m \in DOMAIN store : store[m]["fundraising_id"] = Some(fid) }

\* Lines 252-254: the meetings the query matches.
Matching(fid, ids) ==
    { m \in DOMAIN store :
        /\ store[m]["fundraising_id"] = Some(fid)
        /\ (ids # {} => m \in ids) }

\* The query without its sort: the meetings in any order.
SortedOrdersUnsorted(S) ==
    { o \in [1..Cardinality(S) -> S] :
        \A i, j \in 1..Cardinality(S) : i # j => o[i] # o[j] }

\* Line 255: the matching meetings in ascending scheduled_date order, as
\* the store may return them (meetings of equal date in either order).
SortedOrders(S) ==
    { o \in [1..Cardinality(S) -> S] :
        /\ \A i, j \in 1..Cardinality(S) : i # j => o[i] # o[j]
        /\ \A i, j \in 1..Cardinality(S) :
             i < j => store[o[i]]["scheduled_date"][1]
                        <= store[o[j]]["scheduled_date"][1] }

\* Lines 246-317: query, context blocks, key check, one completion call;
\* out holds the context blocks sent and the meetings used, payload the
\* campaign id and the meeting ids of the request.
CampaignInsights(p) ==
    /\ CanStart(p)
    /\ started' = started + 1
    /\ \E fid \in CampaignIds, ids \in SUBSET RequestIds,
          key \in BOOLEAN, resp \in TextResponses :
       \E order \in SortedOrders(Matching(fid, ids)) :
         LET req    == Some([fundraising_id |-> fid, meeting_ids |-> ids])
             r      == Begin("campaign", MissingId, key)
             blocks == [i \in 1..Len(order) |-> ContextParts(store[order[i]])]
             sent   == Some([context |-> blocks, meetings_used |-> order])
         IN  inv' = [inv EXCEPT ![p] =
               [ (IF Len(order) = 0
                  THEN Done(r, "error", "ValueError", "none", <<>>)
                  ELSE IF KeyMissing(key)
                  THEN Done(r, "error", "RuntimeError_not_configured",
                            "none", <<>>)
                  ELSE IF resp = None
                  THEN Done([r EXCEPT !.out = sent], "error", "APIError",
                            "none", <<"complete">>)
                  ELSE Done([r EXCEPT !.out = sent], "success", "none",
                            "none", <<"complete">>))
                 EXCEPT !.payload = req ]]
    /\ UNCHANGED <<store, dubFiles, imageFiles>>

\* ------------------------------------------------------------ specification

\* One meeting of campaign f1, as create_meeting stored it.
Init ==
    /\ store = [m \in {"m1"} |-> NewMeeting("f1", 1)]
    /\ dubFiles = <<>>
    /\ imageFiles = {}
    /\ inv = [p \in Procs |-> Idle]
    /\ started = 0

Next ==
    \E p \in Procs :
        \/ UploadStart(p)
        \/ UploadSave(p)
        \/ UpdateStart(p)
        \/ UpdateSave(p)
        \/ ProcessStart(p)
        \/ ProcessSaveProcessing(p)
        \/ ProcessRun(p)
        \/ MeetingInsights(p)
        \/ InfographicStart(p)
        \/ InfographicGenerate(p)
        \/ DubStart(p)
        \/ DubEnsureTranscript(p)
        \/ DubSynthesize(p)

Spec == Init /\ [][Next]_vars

\* Campaign synthesis over stored meetings of every shape the pipeline and
\* the CRUD layer can leave behind: with or without AI summary, key points,
\* notes and transcript.
CampaignTexts(short) == { None, Some(short) }

CampaignDocs ==
    { [NewMeeting("f1", date) EXCEPT
          !["ai_summary"] = summary,
          !["ai_key_points"] = points,
          !["notes"] = notes,
          !["audio_recording"] =
              IF transcript = None THEN None
              ELSE Some([NewAudioRecording("upload") EXCEPT
                            !.transcript = transcript])]
      : date \in 1..2,
        summary \in CampaignTexts(<<83, 117, 109>>),
        points \in { None, Some(<< <<75>>, <<80>> >>) },
        notes \in CampaignTexts(<<78, 111>>),
        transcript \in CampaignTexts(<<84, 114>>) }

InitCampaign ==
    /\ store \in [{"m1", "m2"} -> CampaignDocs]
    /\ dubFiles = <<>>
    /\ imageFiles = {}
    /\ inv = [p \in Procs |-> Idle]
    /\ started = 0

NextCampaign == \E p \in Procs : CampaignInsights(p)

SpecCampaign == InitCampaign /\ [][NextCampaign]_vars

\* Two meetings of campaign f1: m1 as create_meeting stored it, m2 with a
\* recording as upload_audio_recording stored it.
InitPair ==
    /\ store = [m \in {"m1", "m2"} |->
                   IF m = "m1" THEN NewMeeting("f1", 1)
                   ELSE SetAttr(NewMeeting("f1", 1), "audio_recording",
                                Some(NewAudioRecording("upload")))]
    /\ dubFiles = <<>>
    /\ imageFiles = {}
    /\ inv = [p \in Procs |-> Idle]
    /\ started = 0

SpecPair == InitPair /\ [][Next]_vars

\* Auto-dub over transcripts an earlier transcription may have stored: none,
\* plain ASCII, a non-ASCII character among the first 200 characters (the
\* first, the 200th) and only beyond them (the 201st).
Padded(n, ch) == [i \in 1..n |-> IF i = n THEN ch ELSE 97]

DubTranscripts ==
    { None, Some(<<97>>), Some(<<233>>),
      Some(Padded(TranslationPrefix, 233)),
      Some(Padded(TranslationPrefix + 1, 233)),
      Some(Padded(TranslationPrefix + 1, 97)) }

InitDub ==
    /\ store \in
          { [m \in {"m1"} |->
                SetAttr(NewMeeting("f1", 1), "audio_recording",
                        Some([NewAudioRecording("upload") EXCEPT
                                 !.transcript = t]))]
            : t \in DubTranscripts }
    /\ dubFiles = <<>>
    /\ imageFiles = {}
    /\ inv = [p \in Procs |-> Idle]
    /\ started = 0

NextDub ==
    \E p \in Procs :
        \/ DubStart(p)
        \/ DubEnsureTranscript(p)
        \/ DubSynthesize(p)

SpecDub == InitDub /\ [][NextDub]_vars

\* Campaign synthesis over one stored meeting whose texts are as long as
\* their budget or one character longer: AI summary, notes, the AI key
\* points joined by newlines, and the transcript.
BudgetTexts(budget) ==
    { None, Some(Padded(budget, 98)), Some(Padded(budget + 1, 98)) }

BudgetDocs ==
    { [NewMeeting("f1", 1) EXCEPT
          !["ai_summary"] = summary,
          !["ai_key_points"] = points,
          !["notes"] = notes,
          !["audio_recording"] =
              IF transcript = None THEN None
              ELSE Some([NewAudioRecording("upload") EXCEPT
                            !.transcript = transcript])]
      : summary \in BudgetTexts(SummaryBudget),
        points \in { None,
                     Some(<< Padded(SummaryBudget - 2, 98), <<98>> >>),
                     Some(<< Padded(SummaryBudget - 1, 98), <<98>> >>) },
        notes \in BudgetTexts(SummaryBudget),
        transcript \in BudgetTexts(TranscriptBudget) }

InitBudget ==
    /\ store \in [{"m1"} -> BudgetDocs]
    /\ dubFiles = <<>>
    /\ imageFiles = {}
    /\ inv = [p \in Procs |-> Idle]
    /\ started = 0

SpecBudget == InitBudget /\ [][NextCampaign]_vars

\* --------------------------------------------------------------- properties

InTrace(tr, e) == \E i \in 1..Len(tr) : tr[i] = e

StatusOf(doc) == Audio(doc).processing_status

\* This step begins an invocation in slot p.
Starts(p) == Free(p) /\ inv'[p] # inv[p]

\* This step ends a process_audio_recording invocation that got past its
\* load: it returns or raises.
ProcessReturns(p) ==
    /\ inv[p].pc \in {"par_loaded", "par_processing"}
    /\ inv'[p].pc = "done"

\* C1 as stated: once process_audio_recording on a meeting with a recording
\* has returned or raised, the stored processing_status is COMPLETED or
\* FAILED, never PROCESSING.
C1_NeverLeftProcessing ==
    [][\A p \in Procs :
        ProcessReturns(p) /\ HasAudio(store'[inv[p].mid])
            => StatusOf(store'[inv[p].mid]) \in {COMPLETED, FAILED}]_vars

\* C1 amended: once the invocation has returned, or has raised after its
\* handler's save of FAILED succeeded, the status stored by that save is
\* COMPLETED or FAILED; when the handler's save fails the store keeps what it
\* held (PROCESSING, if the first save had gone through).
C1_TerminalUnlessHandlerSaveFails ==
    [][\A p \in Procs :
        ProcessReturns(p) =>
            IF inv'[p].status = "success" \/ inv'[p].error = "Exception"
            THEN /\ HasAudio(store'[inv[p].mid])
                 /\ StatusOf(store'[inv[p].mid]) \in {COMPLETED, FAILED}
            ELSE /\ inv'[p].error = "StoreError"
                 /\ store' = store]_vars

\* An invocation raised with its handler's save refused and the record is
\* still PROCESSING.
C1_Witness ==
    \E p \in Procs :
        /\ inv[p].pc = "done" /\ inv[p].op = "process"
        /\ inv[p].error = "StoreError"
        /\ inv[p].trace[1] = "save"
        /\ HasAudio(store[inv[p].mid])
        /\ StatusOf(store[inv[p].mid]) = PROCESSING

\* C2: when the analysis completion is not valid JSON the invocation does
\* not fail over it: unless the store refuses the save of the results, it
\* returns normally and the stored ai_insights is the fixed fallback object
\* and the stored status COMPLETED; the only error it can end in is the
\* store's.
C2_InvalidJsonFallsBack ==
    [][\A p \in Procs :
        ProcessReturns(p) /\ InTrace(inv'[p].trace, "json_fallback") =>
            IF InTrace(inv'[p].trace, "save_failed")
            THEN inv'[p].cause = "StoreError"
            ELSE /\ inv'[p].status = "success"
                 /\ HasAudio(store'[inv[p].mid])
                 /\ Audio(store'[inv[p].mid]).ai_insights
                        = Some(FallbackAnalysis)
                 /\ StatusOf(store'[inv[p].mid]) = COMPLETED]_vars

\* An invocation that met invalid JSON has returned and the fallback is
\* stored with status COMPLETED.
C2_Witness ==
    \E p \in Procs :
        /\ inv[p].pc = "done" /\ inv[p].op = "process"
        /\ InTrace(inv[p].trace, "json_fallback")
        /\ inv[p].status = "success"
        /\ HasAudio(store[inv[p].mid])
        /\ Audio(store[inv[p].mid]).ai_insights = Some(FallbackAnalysis)
        /\ StatusOf(store[inv[p].mid]) = COMPLETED
        /\ store[inv[p].mid]["ai_sentiment"] = Some(FallbackAnalysis.sentiment)

Completed(m) == HasAudio(store[m]) /\ StatusOf(store[m]) = COMPLETED

\* C3 as stated: in every stored state, status COMPLETED implies that the
\* transcript, ai_insights and the promoted fields ai_summary,
\* ai_key_points, ai_action_items and ai_sentiment are all present.
C3_CompletedHasAllFields ==
    \A m \in DOMAIN store :
        Completed(m) =>
            /\ Audio(store[m]).transcript # None
            /\ Audio(store[m]).ai_insights # None
            /\ \A f \in {"ai_summary", "ai_key_points", "ai_action_items",
                         "ai_sentiment"} : store[m][f] # None

\* C3 amended: in every stored state, status COMPLETED implies that the
\* transcript and ai_insights are present and that the promoted fields hold
\* what the stored ai_insights gives for them: its summary and sentiment
\* (absent when the analysis has no such key) and its key points and action
\* items (the empty list when it has none).  Every save is one step, so they
\* are in the store no later than the COMPLETED status.
C3_CompletedHasAnalysis ==
    \A m \in DOMAIN store :
        Completed(m) =>
            /\ Audio(store[m]).transcript # None
            /\ Audio(store[m]).ai_insights # None
            /\ LET a == Audio(store[m]).ai_insights[1]
               IN  /\ Audio(store[m]).transcript_summary
                          = (IF "summary" \in DOMAIN a
                             THEN Some(a["summary"]) ELSE None)
                   /\ store[m]["ai_summary"]
                          = (IF "summary" \in DOMAIN a
                             THEN Some(a["summary"]) ELSE None)
                   /\ store[m]["ai_sentiment"]
                          = (IF "sentiment" \in DOMAIN a
                             THEN Some(a["sentiment"]) ELSE None)
                   /\ store[m]["ai_key_points"]
                          = (IF "key_points" \in DOMAIN a
                             THEN Some(a["key_points"]) ELSE Some(<<>>))
                   /\ store[m]["ai_action_items"]
                          = (IF "action_items" \in DOMAIN a
                             THEN Some(a["action_items"]) ELSE Some(<<>>))

\* A COMPLETED record whose analysis had no summary: ai_summary is absent
\* and ai_key_points is the empty list.
C3_Witness ==
    \E m \in DOMAIN store :
        /\ Completed(m)
        /\ Audio(store[m]).ai_insights # None
        /\ store[m]["ai_summary"] = None
        /\ store[m]["ai_key_points"] = Some(<<>>)
        /\ store[m]["ai_sentiment"] # None

\* Errors raised between the first save and the save of the results: by the
\* transcription call, by the analysis call, or on reading its result.
CallErrors ==
    {"FileNotFoundError", "RuntimeError_not_configured", "APIError",
     "AttributeError"}

\* C4: when the transcription or the analysis call raises, the caller gets
\* an error and never a normal return; the handler's save stores status
\* FAILED, and when that save is refused the caller still gets an error.
C4_ErrorsMarkFailedAndPropagate ==
    [][\A p \in Procs :
        ProcessReturns(p) /\ inv'[p].cause \in CallErrors =>
            /\ inv'[p].status = "error"
            /\ IF InTrace(inv'[p].trace, "save_failed")
               THEN inv'[p].error = "StoreError" /\ store' = store
               ELSE /\ inv'[p].error = "Exception"
                    /\ HasAudio(store'[inv[p].mid])
                    /\ StatusOf(store'[inv[p].mid]) = FAILED]_vars

\* The analysis call raised, the save of FAILED was refused, and the
\* invocation ended in an error.
C4_Witness ==
    \E p \in Procs :
        /\ inv[p].pc = "done" /\ inv[p].op = "process"
        /\ inv[p].cause = "APIError"
        /\ InTrace(inv[p].trace, "complete")
        /\ InTrace(inv[p].trace, "save_failed")
        /\ inv[p].status = "error"

\* C5: whatever the stored status, process_audio_recording on a meeting with
\* a recording is admitted; its first save stores status PROCESSING, and the
\* transcription call is made only after that save.
C5_ProcessingSavedBeforeTranscription ==
    [][\A p \in Procs :
        /\ ( /\ Starts(p)
             /\ inv'[p].op = "process"
             /\ inv'[p].mid \in DOMAIN store
             /\ HasAudio(store[inv'[p].mid]) )
           => inv'[p].pc = "par_loaded"
        /\ (inv[p].pc = "par_loaded" /\ inv'[p].pc = "par_processing")
           => /\ HasAudio(store'[inv[p].mid])
              /\ StatusOf(store'[inv[p].mid]) = PROCESSING
        /\ ( /\ inv'[p] # inv[p]
             /\ inv'[p].op = "process"
             /\ InTrace(inv'[p].trace, "transcribe") )
           => /\ inv[p].pc = "par_processing"
              /\ inv[p].trace = <<"save">>]_vars

\* A second invocation on a record that already holds an analysis has
\* stored PROCESSING and is about to transcribe.
C5_Witness ==
    \E p \in Procs :
        /\ inv[p].pc = "par_processing"
        /\ HasAudio(store[inv[p].mid])
        /\ StatusOf(store[inv[p].mid]) = PROCESSING
        /\ Audio(store[inv[p].mid]).ai_insights # None

\* C6: on a meeting without audio_recording, process_audio_recording,
\* generate_meeting_insights and auto_dub_meeting end at once in an error,
\* with no provider call and no write to the store or to a file store.
C6_NoAudioFailsWithoutEffects ==
    [][\A p \in Procs :
        ( /\ Starts(p)
          /\ inv'[p].op \in {"process", "insight", "dub"}
          /\ inv'[p].mid \in DOMAIN store
          /\ ~HasAudio(store[inv'[p].mid]) )
        => /\ inv'[p].pc = "done"
           /\ inv'[p].status = "error"
           /\ inv'[p].error = "ValueError"
           /\ inv'[p].trace = <<>>
           /\ store' = store
           /\ dubFiles' = dubFiles
           /\ imageFiles' = imageFiles]_vars

\* auto_dub_meeting was refused on a stored meeting that has no recording.
C6_Witness ==
    \E p \in Procs :
        /\ inv[p].pc = "done" /\ inv[p].op = "dub"
        /\ inv[p].mid \in DOMAIN store
        /\ ~HasAudio(store[inv[p].mid])
        /\ inv[p].error = "ValueError"
        /\ started = 1

\* C7: when the inline-audio path and the speech endpoint both fail,
\* auto_dub_meeting raises the synthesis error and writes nothing: the
\* stored meeting, its dub fields included, and the dub files are as before.
C7_SynthesisFailureWritesNoDub ==
    [][\A p \in Procs :
        ( /\ inv[p].pc = "dub_ready"
          /\ inv'[p] # inv[p]
          /\ InTrace(inv'[p].trace, "tts_fallback_raise") )
        => /\ inv'[p].pc = "done"
           /\ inv'[p].status = "error"
           /\ inv'[p].error = "RuntimeError_tts"
           /\ store' = store
           /\ \A f \in DubFields :
                  FieldOf(store'[inv[p].mid], f) = FieldOf(store[inv[p].mid], f)
           /\ dubFiles' = dubFiles]_vars

\* Both synthesis paths failed and the call ended in the synthesis error.
C7_Witness ==
    \E p \in Procs :
        /\ inv[p].pc = "done" /\ inv[p].op = "dub"
        /\ InTrace(inv[p].trace, "tts_primary_empty")
        /\ InTrace(inv[p].trace, "tts_fallback_raise")
        /\ inv[p].error = "RuntimeError_tts"

\* C8 as stated: a failed ad-hoc insight, campaign synthesis, infographic
\* generation or auto-dub has written nothing to the meeting record.
C8_NoMutationOnFailure ==
    \A p \in Procs :
        ( /\ inv[p].pc = "done"
          /\ inv[p].op \in {"insight", "campaign", "infographic", "dub"}
          /\ inv[p].status = "error" )
        => ~InTrace(inv[p].trace, "save")

\* The fields the audio pipeline owns.
PipelineOwned(doc) ==
    << StatusOf(doc), Audio(doc).transcript, Audio(doc).ai_insights,
       doc["ai_summary"], doc["ai_key_points"], doc["ai_action_items"],
       doc["ai_sentiment"] >>

Labels(block) == { block[i][1] : i \in 1..Len(block) }

\* C10 as stated: in the context sent by generate_campaign_insights, the
\* block of a meeting that has both ai_summary and notes holds, after the
\* header lines, only the AI summary and the AI key points: no notes and no
\* transcript excerpt.
C10_SummaryExcludesNotes ==
    \A p \in Procs :
        (inv[p].pc = "done" /\ inv[p].op = "campaign" /\ inv[p].out # None)
        => LET sent == inv[p].out[1]
           IN  \A i \in 1..Len(sent.meetings_used) :
                   LET doc == store[sent.meetings_used[i]]
                   IN  TruthyText(doc["ai_summary"]) /\ TruthyText(doc["notes"])
                       => Labels(sent.context[i]) \subseteq
                              {"Title", "Date", "Type", "Status",
                               "AI Summary", "AI Key Points"}

\* The analysis _analyze_transcript makes of a completion text that lets the
\* invocation succeed: the JSON object itself, or the fallback.
ParsedOf(text) ==
    IF text.kind = "object" THEN text.value ELSE FallbackAnalysis

\* The value of key k of analysis a, absent when a has no such key.
KeyOf(a, k) == IF k \in DOMAIN a THEN Some(a[k]) ELSE None

\* The list under key k of analysis a, empty when a has no such key.
ListOf(a, k) == IF k \in DOMAIN a THEN Some(a[k]) ELSE Some(<<>>)

\* C17: when process_audio_recording returns normally, the record it has
\* just stored holds the provider's transcript without its leading and
\* trailing whitespace, status COMPLETED, the parsed analysis as ai_insights
\* and, as ai_summary, ai_key_points, ai_action_items and ai_sentiment, that
\* analysis's summary, key_points, action_items and sentiment.
C17_SuccessStoresTrimmedTranscriptAndAnalysis ==
    [][\A p \in Procs :
        ProcessReturns(p) /\ inv'[p].status = "success" =>
            LET g == inv'[p].out[1].gateway
                a == ParsedOf(g.completion)
                d == store'[inv[p].mid]
            IN  /\ HasAudio(d)
                /\ Audio(d).transcript = Some(Strip(g.transcript))
                /\ Len(Strip(g.transcript)) > 0
                       => /\ Strip(g.transcript)[1] \notin Whitespace
                          /\ Strip(g.transcript)[Len(Strip(g.transcript))]
                                 \notin Whitespace
                /\ StatusOf(d) = COMPLETED
                /\ Audio(d).ai_insights = Some(a)
                /\ d["ai_summary"] = KeyOf(a, "summary")
                /\ d["ai_key_points"] = ListOf(a, "key_points")
                /\ d["ai_action_items"] = ListOf(a, "action_items")
                /\ d["ai_sentiment"] = KeyOf(a, "sentiment")]_vars

\* A run whose provider transcript had whitespace on both sides has
\* returned and the trimmed text is stored.
C17_Witness ==
    \E p \in Procs :
        /\ inv[p].pc = "done" /\ inv[p].op = "process"
        /\ inv[p].status = "success"
        /\ inv[p].out[1].gateway.transcript = <<32, 97, 10>>
        /\ inv[p].out[1].gateway.completion.kind = "object"
        /\ HasAudio(store[inv[p].mid])
        /\ Audio(store[inv[p].mid]).transcript = Some(<<97>>)
        /\ store[inv[p].mid]["ai_summary"] = Some(FullAnalysis.summary)

\* C18: a run of process_audio_recording that gets from the provider the
\* transcript and the analysis the meeting already holds from an earlier run
\* stores the record it loaded with nothing but the status changed, to
\* COMPLETED: transcript, ai_insights, transcript_summary and the promoted
\* fields are what the earlier run stored.
C18_RepeatedRunStoresSameResults ==
    [][\A p \in Procs :
        ( /\ ProcessReturns(p)
          /\ inv'[p].status = "success"
          /\ Audio(inv[p].meeting[1]).transcript
                 = Some(inv'[p].out[1].transcript)
          /\ Audio(inv[p].meeting[1]).ai_insights
                 = Some(inv'[p].out[1].analysis) )
        => store'[inv[p].mid]
               = [inv[p].meeting[1] EXCEPT !["audio_recording"] =
                     Some([Audio(inv[p].meeting[1]) EXCEPT
                              !.processing_status = COMPLETED])]]_vars

\* A repeated run has returned and the record holds the same results, key
\* points included.
C18_Witness ==
    \E p \in Procs :
        /\ inv[p].pc = "done" /\ inv[p].op = "process"
        /\ inv[p].status = "success"
        /\ inv[p].out[1].repeated
        /\ inv[p].out[1].analysis = FullAnalysis
        /\ Completed(inv[p].mid)
        /\ Audio(store[inv[p].mid]).ai_insights = Some(FullAnalysis)
        /\ store[inv[p].mid]["ai_key_points"] = Some(FullAnalysis.key_points)

\* C13: generate_meeting_insights writes nothing on any outcome: the store
\* and the file stores are as before; on a meeting that is missing, has no
\* recording or has no non-empty transcript it raises without having made a
\* completion call.
C13_MeetingInsightsReadOnly ==
    [][\A p \in Procs :
        Starts(p) /\ inv'[p].op = "insight" =>
            /\ inv'[p].pc = "done"
            /\ store' = store
            /\ dubFiles' = dubFiles
            /\ imageFiles' = imageFiles
            /\ ~InTrace(inv'[p].trace, "save")
            /\ ( \/ inv'[p].mid \notin DOMAIN store
                 \/ store[inv'[p].mid]["audio_recording"] = None
                 \/ Audio(store[inv'[p].mid]).transcript = None
                 \/ Len(Audio(store[inv'[p].mid]).transcript[1]) = 0 )
               => /\ inv'[p].status = "error"
                  /\ inv'[p].error = "ValueError"
                  /\ inv'[p].trace = <<>>]_vars

\* generate_meeting_insights was refused on a meeting whose stored
\* transcript is the empty text.
C13_Witness ==
    \E p \in Procs :
        /\ inv[p].pc = "done" /\ inv[p].op = "insight"
        /\ inv[p].error = "ValueError"
        /\ inv[p].mid \in DOMAIN store
        /\ HasAudio(store[inv[p].mid])
        /\ Audio(store[inv[p].mid]).transcript = Some(<<>>)

\* The events of a trace that are AI provider calls or saves of the meeting.
CallsAndSaves ==
    {"save", "transcribe", "complete", "complete_translate",
     "complete_cleanup", "image", "tts_primary_audio", "tts_primary_raise",
     "tts_primary_empty", "tts_fallback_raise", "tts_fallback_audio"}

\* C14 as stated: an invocation of a stage made without a credential has
\* ended with neither a provider call nor a write to the meeting record
\* behind it.
C14_NoCredentialNoEffects ==
    \A p \in Procs :
        ( /\ inv[p].pc = "done"
          /\ inv[p].op \in {"process", "insight", "dub", "infographic",
                            "campaign"}
          /\ ~inv[p].key )
        => \A e \in CallsAndSaves : ~InTrace(inv[p].trace, e)

\* The five dub fields are stored on meeting m.
DubStored(m) == \A f \in DubFields : FieldOf(store[m], f) # None

\* C15 as stated: when the speech endpoint delivered the audio after the
\* inline-audio path had failed, auto_dub_meeting ends as it does after a
\* successful synthesis: normally, with the dub file written and the dub
\* fields stored.
C15_FallbackDubPersisted ==
    \A p \in Procs :
        ( /\ inv[p].pc = "done" /\ inv[p].op = "dub"
          /\ InTrace(inv[p].trace, "tts_fallback_audio") )
        => /\ inv[p].status = "success"
           /\ DubFilename(inv[p].mid, "mp3") \in DOMAIN dubFiles
           /\ DubStored(inv[p].mid)

\* C16 as stated: the error process_audio_recording raises after a failed
\* transcription or analysis is the error that call raised.
C16_ErrorKindReachesCaller ==
    \A p \in Procs :
        ( /\ inv[p].pc = "done" /\ inv[p].op = "process"
          /\ inv[p].cause \in {"FileNotFoundError",
                               "RuntimeError_not_configured", "APIError"}
          /\ ~InTrace(inv[p].trace, "save_failed") )
        => inv[p].error = inv[p].cause

\* C19 as stated: auto_dub_meeting on an ASCII transcript whose clean-up
\* completion and synthesis succeeded ends normally with a non-empty
\* dub_text stored.
C19_AsciiDubStoresText ==
    \A p \in Procs :
        ( /\ inv[p].pc = "done" /\ inv[p].op = "dub"
          /\ InTrace(inv[p].trace, "complete_cleanup")
          /\ InTrace(inv[p].trace, "file_write") )
        => /\ inv[p].status = "success"
           /\ TruthyText(FieldOf(store[inv[p].mid], "dub_text"))

\* C20 as stated: the dub fields of a stored meeting are all unset or all
\* set, a set dub_filename is '<meeting id>_dub.<dub_format>', and an
\* auto_dub_meeting whose synthesis succeeded and whose file was written
\* ends with the five fields stored.
C20_DubFieldsStoredTogether ==
    /\ \A m \in DOMAIN store :
           \/ \A f \in DubFields : FieldOf(store[m], f) = None
           \/ /\ DubStored(m)
              /\ FieldOf(store[m], "dub_filename")
                     = Some(<<m, "_dub.", FieldOf(store[m], "dub_format")[1]>>)
    /\ \A p \in Procs :
           ( /\ inv[p].pc = "done" /\ inv[p].op = "dub"
             /\ InTrace(inv[p].trace, "file_write") )
           => DubStored(inv[p].mid)

\* C11: the context blocks of generate_campaign_insights are those of the
\* matching meetings, each once, in ascending order of scheduled_date, and
\* meetings_used lists the same meetings in the same order.
C11_BlocksInChronologicalOrder ==
    \A p \in Procs :
        (inv[p].pc = "done" /\ inv[p].op = "campaign" /\ inv[p].out # None)
        => LET sent == inv[p].out[1]
               used == sent.meetings_used
               req  == inv[p].payload[1]
           IN  /\ Len(sent.context) = Len(used)
               /\ { used[i] : i \in 1..Len(used) }
                      = { m \in DOMAIN store :
                            /\ store[m]["fundraising_id"]
                                   = Some(req.fundraising_id)
                            /\ (req.meeting_ids # {}
                                    => m \in req.meeting_ids) }
               /\ \A i, j \in 1..Len(used) :
                      i < j => /\ used[i] # used[j]
                               /\ store[used[i]]["scheduled_date"][1]
                                      <= store[used[j]]["scheduled_date"][1]
               /\ \A i \in 1..Len(used) :
                      sent.context[i][2]
                          = <<"Date", store[used[i]]["scheduled_date"]>>

\* Both meetings were used, the later-scheduled m1 after m2.
C11_Witness ==
    \E p \in Procs :
        /\ inv[p].pc = "done" /\ inv[p].op = "campaign"
        /\ inv[p].status = "success"
        /\ inv[p].out[1].meetings_used = <<"m2", "m1">>
        /\ store["m2"]["scheduled_date"] = Some(1)
        /\ store["m1"]["scheduled_date"] = Some(2)

\* C12: when no stored meeting has the campaign id, or none of those is in
\* the requested meeting-id subset, generate_campaign_insights raises the
\* not-found error and makes no completion call.
C12_EmptyCampaignRaises ==
    [][\A p \in Procs :
        ( /\ Starts(p)
          /\ inv'[p].op = "campaign"
          /\ { m \in DOMAIN store :
                 /\ store[m]["fundraising_id"]
                        = Some(inv'[p].payload[1].fundraising_id)
                 /\ (inv'[p].payload[1].meeting_ids # {}
                         => m \in inv'[p].payload[1].meeting_ids) } = {} )
        => /\ inv'[p].pc = "done"
           /\ inv'[p].status = "error"
           /\ inv'[p].error = "ValueError"
           /\ inv'[p].trace = <<>>
           /\ inv'[p].out = None
           /\ store' = store]_vars

\* A request for the campaign of the stored meetings, restricted to a
\* meeting id that names none of them, was refused.
C12_Witness ==
    \E p \in Procs :
        /\ inv[p].pc = "done" /\ inv[p].op = "campaign"
        /\ inv[p].payload[1].fundraising_id = "f1"
        /\ inv[p].payload[1].meeting_ids = {MissingId}
        /\ inv[p].key
        /\ inv[p].error = "ValueError"

\* The three infographic fields are stored on meeting m.
InfographicStored(m) ==
    \A f \in InfographicFields : FieldOf(store[m], f) # None

\* C21 as stated: a stored infographic_filename names an image file that was
\* written and comes with the other two infographic fields, and a
\* generate_infographic whose image was synthesized and whose file was
\* written ends with the three fields stored.
C21_InfographicFieldsStoredAfterFile ==
    /\ \A m \in DOMAIN store :
           FieldOf(store[m], "infographic_filename") # None
               => /\ FieldOf(store[m], "infographic_filename")[1] \in imageFiles
                  /\ InfographicStored(m)
    /\ \A p \in Procs :
           ( /\ inv[p].pc = "done" /\ inv[p].op = "infographic"
             /\ InTrace(inv[p].trace, "image")
             /\ InTrace(inv[p].trace, "file_write") )
           => InfographicStored(inv[p].mid)

C23_StoredDubMatchesFile ==
    (\A p \in Procs : inv[p].op = "dub" => inv[p].pc = "done")
    => \A m \in DOMAIN store, fmt \in Formats :
           DubFilename(m, fmt) \in DOMAIN dubFiles
               => /\ FieldOf(store[m], "dub_filename")
                         = Some(DubFilename(m, fmt))
                  /\ FieldOf(store[m], "dub_text")
                         = Some(dubFiles[DubFilename(m, fmt)].text)
                  /\ FieldOf(store[m], "dub_voice")
                         = Some(dubFiles[DubFilename(m, fmt)].voice)

\* The trace events that are completion calls and speech-synthesis calls.
CompletionEvents == {"complete", "complete_translate", "complete_cleanup"}

SynthesisEvents ==
    {"tts_primary_audio", "tts_primary_raise", "tts_primary_empty",
     "tts_fallback_raise", "tts_fallback_audio"}

\* C24: an auto_dub_meeting that has its transcript and a credential makes
\* exactly one completion call, with the translation prompt when some
\* character among the first 200 of the transcript has a code point above
\* 127 and with the clean-up prompt otherwise (also when the only such
\* characters come after the first 200), and every speech-synthesis call
\* comes after it; without a credential it makes neither call.
C24_TranslationChosenByPrefix ==
    [][\A p \in Procs :
        inv[p].pc = "dub_ready" /\ inv'[p] # inv[p] =>
            LET t  == inv[p].transcript[1]
                tr == inv'[p].trace
                nonAscii == \E i \in 1..Len(t) : i <= 200 /\ t[i] > 127
            IN  IF inv[p].key
                THEN /\ InTrace(tr, "complete_translate") <=> nonAscii
                     /\ InTrace(tr, "complete_cleanup") <=> ~nonAscii
                     /\ Cardinality({ i \in 1..Len(tr) :
                                        tr[i] \in CompletionEvents }) = 1
                     /\ \A i, j \in 1..Len(tr) :
                            tr[i] \in CompletionEvents
                            /\ tr[j] \in SynthesisEvents => i < j
                ELSE \A i \in 1..Len(tr) :
                         tr[i] \notin CompletionEvents \cup SynthesisEvents]_vars

\* A dub of a transcript whose only non-ASCII character is the 201st took
\* the clean-up path and went on to synthesis.
C24_Witness ==
    \E p \in Procs :
        /\ inv[p].pc = "done" /\ inv[p].op = "dub"
        /\ inv[p].mid \in DOMAIN store
        /\ Audio(store[inv[p].mid]).transcript
               = Some([i \in 1..201 |-> IF i = 201 THEN 233 ELSE 97])
        /\ Len(inv[p].trace) >= 2
        /\ inv[p].trace[1] = "complete_cleanup"
        /\ inv[p].trace[2] \in SynthesisEvents

\* C25 as stated: auto_dub_meeting on a meeting whose recording has a stored
\* transcript makes no transcription call, and on one without a transcript
\* goes on only after the transcription call.
C25_StoredTranscriptNotTranscribed ==
    [][\A p \in Procs :
        inv[p].pc = "dub_loaded" /\ inv'[p] # inv[p] =>
            IF Audio(inv[p].meeting[1]).transcript # None
            THEN ~InTrace(inv'[p].trace, "transcribe")
            ELSE inv'[p].pc = "dub_ready"
                     => InTrace(inv'[p].trace, "transcribe")]_vars

\* C25 amended: when the stored transcript is absent or the empty text,
\* auto_dub_meeting goes to the transcription stage first: it goes on to
\* translation only after the transcription call and the save of its result,
\* with that result as its transcript, and otherwise ends in the error of
\* that stage or of the store, never in a missing-transcript error; when a
\* non-empty transcript is stored it makes no call, writes nothing and takes
\* the stored transcript.
C25_TranscribesWhenNoText ==
    [][\A p \in Procs :
        inv[p].pc = "dub_loaded" /\ inv'[p] # inv[p] =>
            LET had == Audio(inv[p].meeting[1]).transcript
            IN  IF had # None /\ Len(had[1]) > 0
                THEN /\ inv'[p].pc = "dub_ready"
                     /\ inv'[p].trace = <<>>
                     /\ inv'[p].transcript = had
                     /\ store' = store
                ELSE /\ inv'[p].pc = "dub_ready"
                            => /\ inv'[p].trace = <<"transcribe", "save">>
                               /\ inv'[p].transcript # None
                               /\ Audio(store'[inv[p].mid]).transcript
                                      = inv'[p].transcript
                     /\ inv'[p].pc # "dub_ready"
                            => /\ inv'[p].pc = "done"
                               /\ inv'[p].status = "error"
                               /\ inv'[p].error \in
                                      {"FileNotFoundError",
                                       "RuntimeError_not_configured",
                                       "APIError", "StoreError"}]_vars

\* A dub of a meeting that an earlier process_audio_recording had left with
\* an empty transcript has transcribed again and holds the new text.
C25_Witness ==
    \E p \in Procs :
        /\ inv[p].pc = "dub_ready"
        /\ inv[p].trace = <<"transcribe", "save">>
        /\ Audio(inv[p].meeting[1]).ai_insights # None
        /\ inv[p].transcript = Some(<<97>>)

\* Text out is text within budget: text itself when it is no longer than
\* budget, else its first budget characters followed by '...'.
Fits(out, text, budget) ==
    IF Len(text) <= budget
    THEN out = text
    ELSE /\ Len(out) = budget + 3
         /\ SubSeq(out, 1, budget) = SubSeq(text, 1, budget)
         /\ SubSeq(out, budget + 1, budget + 3) = <<46, 46, 46>>

\* The text of the part of a block that has this label.
PartOf(block, label) ==
    block[CHOOSE i \in 1..Len(block) : block[i][1] = label][2]

\* C26: in the context generate_campaign_insights sends, the AI summary, the
\* joined AI key points and the notes of a meeting are each there unchanged
\* when no longer than 800 characters and else cut to their first 800
\* characters followed by '...'; the transcript excerpt is there only for a
\* meeting with a transcript and neither AI summary nor notes, unchanged up
\* to 1500 characters and else cut to 1500 followed by '...'.
C26_FieldsWithinBudget ==
    \A p \in Procs :
        (inv[p].pc = "done" /\ inv[p].op = "campaign" /\ inv[p].out # None)
        => LET sent == inv[p].out[1]
           IN  \A i \in 1..Len(sent.meetings_used) :
                   LET doc   == store[sent.meetings_used[i]]
                       block == sent.context[i]
                       has(o) == o # None /\ Len(o[1]) > 0
                   IN  /\ "AI Summary" \in Labels(block)
                              <=> has(doc["ai_summary"])
                       /\ "AI Summary" \in Labels(block)
                              => Fits(PartOf(block, "AI Summary"),
                                      doc["ai_summary"][1], 800)
                       /\ "AI Key Points" \in Labels(block)
                              <=> has(doc["ai_key_points"])
                       /\ "AI Key Points" \in Labels(block)
                              => Fits(PartOf(block, "AI Key Points"),
                                      JoinLines(doc["ai_key_points"][1]), 800)
                       /\ "Notes" \in Labels(block) <=> has(doc["notes"])
                       /\ "Notes" \in Labels(block)
                              => Fits(PartOf(block, "Notes"),
                                      doc["notes"][1], 800)
                       /\ "Transcript excerpt" \in Labels(block)
                              <=> /\ doc["audio_recording"] # None
                                  /\ has(Audio(doc).transcript)
                                  /\ ~has(doc["ai_summary"])
                                  /\ ~has(doc["notes"])
                       /\ "Transcript excerpt" \in Labels(block)
                              => Fits(PartOf(block, "Transcript excerpt"),
                                      Audio(doc).transcript[1], 1500)

\* A context was sent that holds key points of 800 characters unchanged and
\* the excerpt of a transcript of 1501 characters cut to 1500 and marked.
C26_Witness ==
    \E p \in Procs :
        /\ inv[p].pc = "done" /\ inv[p].op = "campaign"
        /\ inv[p].status = "success"
        /\ store["m1"]["ai_summary"] = None
        /\ store["m1"]["notes"] = None
        /\ store["m1"]["ai_key_points"] # None
        /\ store["m1"]["audio_recording"] # None
        /\ Len(JoinLines(store["m1"]["ai_key_points"][1])) = 800
        /\ Len(Audio(store["m1"]).transcript[1]) = 1501
        /\ Len(PartOf(inv[p].out[1].context[1], "AI Key Points")) = 800
        /\ Len(PartOf(inv[p].out[1].context[1], "Transcript excerpt")) = 1503

\* The analysis objects that lack any subset of the nine keys.
PartialAnalyses ==
    { Restrict(FullAnalysis, ks) : ks \in SUBSET AnalysisKeys }

\* Document d holds analysis a with status COMPLETED, its summary and
\* sentiment absent when a lacks them and its key points and action items
\* the empty list when a lacks them.
HoldsDefaulted(d, a) ==
    /\ HasAudio(d)
    /\ StatusOf(d) = COMPLETED
    /\ Audio(d).ai_insights = Some(a)
    /\ d["ai_summary"]
           = (IF "summary" \in DOMAIN a THEN Some(a["summary"]) ELSE None)
    /\ d["ai_sentiment"]
           = (IF "sentiment" \in DOMAIN a THEN Some(a["sentiment"]) ELSE None)
    /\ d["ai_key_points"]
           = (IF "key_points" \in DOMAIN a THEN Some(a["key_points"])
              ELSE Some(<<>>))
    /\ d["ai_action_items"]
           = (IF "action_items" \in DOMAIN a THEN Some(a["action_items"])
              ELSE Some(<<>>))

\* A recording in status PROCESSING, fresh or holding the results of an
\* earlier run, as ProcessRun finds it.
ProcessingDocs ==
    LET fresh == ProcessingDoc(SetAttr(NewMeeting("f1", 1), "audio_recording",
                                       Some(NewAudioRecording("upload"))))
    IN  { fresh,
          ProcessingDoc(ApplyResults(fresh, <<97>>,
                                     [kind |-> "object",
                                      value |-> FullAnalysis]).doc) }

\* Writing any partial analysis to such a meeting raises nothing and gives
\* status COMPLETED and the defaults.
PartialAnalysesDefaulted ==
    \A d \in ProcessingDocs, a \in PartialAnalyses :
        LET res == ApplyResults(d, <<97>>, [kind |-> "object", value |-> a])
        IN  res.ok /\ HoldsDefaulted(res.doc, a)

\* C27: whichever of its nine fields the analysis object lacks, writing the
\* results to the meeting raises nothing and gives status COMPLETED, an
\* empty list for a missing key_points or action_items and an absent value
\* for a missing summary or sentiment; a run of process_audio_recording
\* whose completion was a JSON object and whose save went through returns
\* normally with exactly that stored, and a run that ends in an error does
\* so for a failed call, a completion that is no JSON object or a refused
\* save.
C27_MissingFieldsDefaulted ==
    [][\A p \in Procs :
        inv[p].pc = "par_processing" /\ inv'[p] # inv[p] =>
            /\ PartialAnalysesDefaulted
            /\ inv'[p].status = "success"
               /\ inv'[p].out[1].gateway.completion.kind = "object"
                   => HoldsDefaulted(store'[inv[p].mid],
                                     inv'[p].out[1].gateway.completion.value)
            /\ inv'[p].status = "error"
                   => inv'[p].cause \in
                          {"FileNotFoundError", "RuntimeError_not_configured",
                           "APIError", "AttributeError", "StoreError"}]_vars

\* A run whose analysis was the empty JSON object has returned and the
\* record is COMPLETED with empty lists and no summary or sentiment.
C27_Witness ==
    \E p \in Procs :
        /\ inv[p].pc = "done" /\ inv[p].op = "process"
        /\ inv[p].status = "success"
        /\ DOMAIN inv[p].out[1].analysis = {}
        /\ Completed(inv[p].mid)
        /\ store[inv[p].mid]["ai_summary"] = None
        /\ store[inv[p].mid]["ai_sentiment"] = None
        /\ store[inv[p].mid]["ai_key_points"] = Some(<<>>)
        /\ store[inv[p].mid]["ai_action_items"] = Some(<<>>)

\* C28 as stated: no step of an auto_dub_meeting invocation changes the
\* stored processing_status, ai_insights or promoted ai_* fields of its
\* meeting.
C28_DubKeepsPipelineFields ==
    [][\A p \in Procs :
        ( /\ inv'[p] # inv[p]
          /\ inv'[p].op = "dub"
          /\ inv'[p].mid \in DOMAIN store
          /\ HasAudio(store[inv'[p].mid])
          /\ HasAudio(store'[inv'[p].mid]) )
        => LET old == store[inv'[p].mid]
               new == store'[inv'[p].mid]
           IN  /\ StatusOf(new) = StatusOf(old)
               /\ Audio(new).ai_insights = Audio(old).ai_insights
               /\ \A f \in {"ai_summary", "ai_key_points", "ai_action_items",
                            "ai_sentiment"} : new[f] = old[f]]_vars

\* Document doc with nothing but the processing status changed, to status.
WithStatus(doc, status) ==
    [doc EXCEPT !["audio_recording"] =
        Some([doc["audio_recording"][1] EXCEPT !.processing_status = status])]

\* C29: process_audio_recording works on the record as it loaded it and
\* changes nothing but the status before its calls; when the transcription
\* or the analysis call fails, the record its handler saves is the loaded
\* one with status FAILED, so that the transcript, transcript_summary,
\* ai_insights and promoted ai_* fields of an earlier successful run are
\* stored as that run wrote them; when the store refuses the handler's save
\* the stored record stays as it was.
C29_FailedRerunKeepsResults ==
    [][\A p \in Procs :
        /\ (Starts(p) /\ inv'[p].op = "process" /\ inv'[p].pc = "par_loaded")
               => inv'[p].meeting = Some(store[inv'[p].mid])
        /\ (inv[p].pc = "par_loaded" /\ inv'[p].pc = "par_processing")
               => inv'[p].meeting[1]
                      = WithStatus(inv[p].meeting[1], PROCESSING)
        /\ ( /\ inv[p].pc = "par_processing"
             /\ inv'[p].pc = "done"
             /\ inv'[p].cause \in {"FileNotFoundError",
                                   "RuntimeError_not_configured", "APIError"} )
               => IF inv'[p].trace[Len(inv'[p].trace)] = "save"
                  THEN store'[inv[p].mid]
                           = WithStatus(inv[p].meeting[1], FAILED)
                  ELSE store' = store]_vars

\* A re-run on a record that held the results of a successful run failed in
\* its analysis call: the record is FAILED and still holds those results.
C29_Witness ==
    \E p \in Procs :
        /\ inv[p].pc = "done" /\ inv[p].op = "process"
        /\ inv[p].cause = "APIError"
        /\ InTrace(inv[p].trace, "complete")
        /\ inv[p].trace[Len(inv[p].trace)] = "save"
        /\ HasAudio(store[inv[p].mid])
        /\ StatusOf(store[inv[p].mid]) = FAILED
        /\ Audio(store[inv[p].mid]).transcript = Some(<<97>>)
        /\ Audio(store[inv[p].mid]).transcript_summary
               = Some(FullAnalysis.summary)
        /\ Audio(store[inv[p].mid]).ai_insights = Some(FullAnalysis)
        /\ store[inv[p].mid]["ai_summary"] = Some(FullAnalysis.summary)
        /\ store[inv[p].mid]["ai_key_points"] = Some(FullAnalysis.key_points)

\* C30: a run of process_audio_recording that returns normally had a
\* completion that was a JSON object or no JSON at all, never JSON of
\* another type, and the fallback analysis was substituted (and stored)
\* exactly when it was no JSON; a run whose completion parsed to something
\* that is no object took no fallback and ends in an error, with status
\* FAILED stored unless the store refuses the handler's save.
C30_FallbackOnlyForInvalidJson ==
    [][\A p \in Procs :
        inv[p].pc = "par_processing" /\ inv'[p].pc = "done" =>
            /\ inv'[p].status = "success" =>
                   LET c == inv'[p].out[1].gateway.completion
                   IN  /\ c.kind \in {"object", "invalid"}
                       /\ InTrace(inv'[p].trace, "json_fallback")
                              <=> c.kind = "invalid"
                       /\ Audio(store'[inv[p].mid]).ai_insights
                              = Some(IF c.kind = "invalid"
                                     THEN FallbackAnalysis ELSE c.value)
            /\ inv'[p].cause = "AttributeError" =>
                   /\ InTrace(inv'[p].trace, "complete")
                   /\ ~InTrace(inv'[p].trace, "json_fallback")
                   /\ inv'[p].status = "error"
                   /\ IF inv'[p].trace[Len(inv'[p].trace)] = "save"
                      THEN /\ inv'[p].error = "Exception"
                           /\ StatusOf(store'[inv[p].mid]) = FAILED
                      ELSE /\ inv'[p].error = "StoreError"
                           /\ store' = store]_vars

\* A first run whose completion was valid JSON but no object has ended in an
\* error: the record is FAILED and holds no analysis, the fallback neither.
C30_Witness ==
    \E p \in Procs :
        /\ inv[p].pc = "done" /\ inv[p].op = "process"
        /\ inv[p].cause = "AttributeError"
        /\ inv[p].status = "error"
        /\ inv[p].trace = <<"save", "transcribe", "complete", "save">>
        /\ HasAudio(store[inv[p].mid])
        /\ StatusOf(store[inv[p].mid]) = FAILED
        /\ Audio(store[inv[p].mid]).ai_insights = None

====
